---------------------------- MODULE Spec2Model ----------------------------
(***************************************************************************)
(* Model of src/app/client-wrapper.js (class ClientWrapper): the public    *)
(* operations join, part, kick, getTopic, tell, notify, setPrivileges and  *)
(* its give/take wrappers, and the calls they make on the irc.Client       *)
(* collaborator (this.lib).                                                *)
(*                                                                         *)
(* A JavaScript string is a sequence of characters, a Buffer a sequence of *)
(* bytes, an Array a sequence of strings.  Every method is a synchronous   *)
(* function: a call occupies the JavaScript stack from its entry until it  *)
(* returns or throws, and each call it makes on this.lib is one step.      *)
(***************************************************************************)
EXTENDS Naturals, Sequences, FiniteSets

VARIABLES
    sendLog,    \* every command handed to this.lib (join/part/send), in order
    frames,     \* per callback: the public call it is executing, if any
    ncalls,     \* number of public calls started so far (call identities)
    chanData    \* the collaborator's channel cache, read by this.lib.chanData

vars == <<sendLog, frames, ncalls, chanData>>

---------------------------------------------------------------------------
(* Bounds of the model *)

MaxStr == 3        \* longest string drawn for a list or a message
MaxNicks == 13     \* longest array drawn for a nick/channel list
MaxCalls == 2      \* public calls per behaviour of the event-loop specifications

---------------------------------------------------------------------------
(* JavaScript values *)

SP == " "
TAB == "\t"
LF == "\n"
CR == "\r"
REPL == "U+FFFD"

Undef == [t |-> "undefined", s |-> <<>>, a |-> <<>>, b |-> <<>>]
Num == [t |-> "number", s |-> <<>>, a |-> <<>>, b |-> <<>>]
Str(cs) == [t |-> "string", s |-> cs, a |-> <<>>, b |-> <<>>]
Arr(xs) == [t |-> "array", s |-> <<>>, a |-> xs, b |-> <<>>]
Buf(bs) == [t |-> "buffer", s |-> <<>>, a |-> <<>>, b |-> bs]

IsString(v) == v.t = "string"
IsArray(v) == v.t = "array"
IsBuffer(v) == v.t = "buffer"

\* JavaScript truthiness: undefined and "" are falsy; the number drawn (42),
\* arrays and buffers are truthy.
Truthy(v) ==
    CASE v.t = "undefined" -> FALSE
      [] v.t = "string" -> v.s # <<>>
      [] OTHER -> TRUE

\* String(v), as a template literal converts its operands.
ToStr(v) ==
    CASE v.t = "string" -> v.s
      [] v.t = "undefined" -> <<"u", "n", "d", "e", "f", "i", "n", "e", "d">>
      [] OTHER -> <<"4", "2">>

Min(m, n) == IF m <= n THEN m ELSE n

\* String.prototype.split(sep) for a one-character separator: every occurrence
\* of sep ends a segment, empty segments included; "" gives [""].
SplitOn(s, sep) ==
    LET F[i \in 0..Len(s)] ==
            IF i = 0 THEN << <<>> >>
            ELSE IF s[i] = sep THEN Append(F[i - 1], <<>>)
            ELSE [F[i - 1] EXCEPT ![Len(F[i - 1])] = Append(@, s[i])]
    IN F[Len(s)]

\* String.prototype.split(/[\r\n]+/): every maximal run of CR/LF ends a
\* segment; a leading or trailing run leaves an empty segment; "" gives [""].
SplitLines(s) ==
    LET D == {CR, LF}
        G[i \in 0..Len(s)] ==
            IF i = 0 THEN << <<>> >>
            ELSE IF s[i] \in D
                 THEN IF i > 1 /\ s[i - 1] \in D THEN G[i - 1]
                      ELSE Append(G[i - 1], <<>>)
            ELSE [G[i - 1] EXCEPT ![Len(G[i - 1])] = Append(@, s[i])]
    IN G[Len(s)]

\* Buffer.prototype.toString(): UTF-8 decoding, byte by byte for the bytes drawn.
ByteChar(b) ==
    CASE b = 10 -> LF
      [] b = 13 -> CR
      [] b = 120 -> "x"
      [] OTHER -> REPL

Decode(bs) == [i \in 1..Len(bs) |-> ByteChar(bs[i])]

\* Array.prototype.filter(line => line.length)
FilterNonEmpty(xs) == SelectSeq(xs, LAMBDA l : Len(l) > 0)

\* Array.prototype.slice(from, to): zero-based, end exclusive, clipped.
Slice(xs, from, to) == SubSeq(xs, from + 1, Min(to, Len(xs)))

\* String.prototype.repeat(n)
RECURSIVE Repeat(_, _)
Repeat(s, n) == IF n = 0 THEN <<>> ELSE s \o Repeat(s, n - 1)

\* assert.match(action, /\+|\-/): a string with a '+' or a '-' anywhere in it.
MatchesAction(v) == IsString(v) /\ \E i \in 1..Len(v.s) : v.s[i] \in {"+", "-"}

\* assert.match(privilege, /v|h|o/i): a string with one of v, h, o anywhere in
\* it, in either case.
MatchesPrivilege(v) ==
    IsString(v) /\ \E i \in 1..Len(v.s) : v.s[i] \in {"v", "h", "o", "V", "H", "O"}

---------------------------------------------------------------------------
(* What a call does: the commands it hands to this.lib, in order, and the  *)
(* exception it raises once they are exhausted ("none": it returns).       *)

Cmd(verb, args) == [verb |-> verb, args |-> args]

Plan(cmds) == [cmds |-> cmds, exc |-> "none"]

\* assert(...) throws before the loop that sends.
Raise == [cmds |-> <<>>, exc |-> "InvalidArgument"]

\* if (typeof x === 'string') x = x.split(' ');
SplitList(v) == IF IsString(v) THEN Arr(SplitOn(v.s, SP)) ELSE v

JoinPlan(channels) ==
    LET cs == SplitList(channels) IN
    IF ~IsArray(cs) THEN Raise
    ELSE Plan([i \in 1..Len(cs.a) |-> Cmd("JOIN", <<Str(cs.a[i])>>)])

PartPlan(channels, message) ==
    LET cs == SplitList(channels) IN
    IF ~IsArray(cs) THEN Raise
    ELSE Plan([i \in 1..Len(cs.a) |-> Cmd("PART", <<Str(cs.a[i]), message>>)])

\* Mutant: the reason is pushed whenever it was passed, "" included.
KickCommandAlways(channel, nick, reason) ==
    Cmd("KICK", <<channel, Str(nick)>> \o (IF reason # Undef THEN <<reason>> ELSE <<>>))

KickCommand(channel, nick, reason) ==
    Cmd("KICK", <<channel, Str(nick)>> \o (IF Truthy(reason) THEN <<reason>> ELSE <<>>))

KickPlan(channel, nicks, reason) ==
    LET ns == SplitList(nicks) IN
    IF ~IsArray(ns) THEN Raise
    ELSE Plan([i \in 1..Len(ns.a) |-> KickCommand(channel, ns.a[i], reason)])

\* The lines sendMessage sends: split, filtered and prefixed.
MessageLines(lines, prefix) ==
    LET ls == CASE IsString(lines) -> SplitLines(lines.s)
                [] IsBuffer(lines) -> FilterNonEmpty(SplitLines(Decode(lines.b)))
                [] OTHER -> lines.a
    IN IF prefix # Undef
       THEN [i \in 1..Len(ls) |-> ToStr(prefix) \o <<SP>> \o ls[i]]
       ELSE ls

\* Mutant: the target is asserted after the lines were sent.
SendMessagePlanLateCheck(type, target, lines, prefix) ==
    IF ~(IsString(lines) \/ IsBuffer(lines) \/ IsArray(lines)) THEN Raise
    ELSE LET ls == MessageLines(lines, prefix) IN
         [cmds |-> [i \in 1..Len(ls) |-> Cmd(type, <<target, Str(ls[i])>>)],
          exc |-> IF IsString(target) THEN "none" ELSE "InvalidArgument"]

SendMessagePlan(type, target, lines, prefix) ==
    IF ~IsString(target) THEN Raise
    ELSE IF type \notin {"PRIVMSG", "NOTICE"} THEN Raise
    ELSE IF ~(IsString(lines) \/ IsBuffer(lines) \/ IsArray(lines)) THEN Raise
    ELSE LET ls == MessageLines(lines, prefix) IN
         Plan([i \in 1..Len(ls) |-> Cmd(type, <<target, Str(ls[i])>>)])

BatchSize == 6

\* Mutant: Math.floor in place of Math.ceil.
BatchCountFloor(n) == n \div BatchSize

\* Mutant: one batch too many when the length is a multiple of the batch size.
BatchCountOffByOne(n) == n \div BatchSize + 1

\* Math.ceil(nicks.length / batch_size)
BatchCount(n) == IF n % BatchSize = 0 THEN n \div BatchSize ELSE n \div BatchSize + 1

BatchCommand(channel, action, privilege, nicks, i) ==
    LET batch_offset == i * BatchSize
        batch_nicks == Slice(nicks, batch_offset, batch_offset + BatchSize)
        batch_mode == action.s \o Repeat(privilege.s, Len(batch_nicks))
    IN Cmd("MODE", <<channel, Str(batch_mode)>>
                     \o [k \in 1..Len(batch_nicks) |-> Str(batch_nicks[k])])

SetPrivilegesPlan(channel, action, privilege, nicks) ==
    IF ~IsString(channel) THEN Raise
    ELSE IF ~MatchesAction(action) THEN Raise
    ELSE IF ~MatchesPrivilege(privilege) THEN Raise
    ELSE LET ns == SplitList(nicks) IN
         IF ~IsArray(ns) THEN Raise
         ELSE Plan([j \in 1..BatchCount(Len(ns.a)) |->
                        BatchCommand(channel, action, privilege, ns.a, j - 1)])

\* getTopic's return value for the snapshot this.lib.chanData(channel) gives.
NoData == [present |-> FALSE, topic |-> Undef, topicBy |-> Undef]

\* Mutant: the setter is appended without looking at it.
GetTopicValueAlwaysSetBy(data) ==
    IF data.present /\ Truthy(data.topic)
    THEN Str(ToStr(data.topic) \o <<SP, "s", "e", "t", SP, "b", "y", SP>>
             \o ToStr(data.topicBy))
    ELSE Undef

GetTopicValue(data) ==
    IF data.present /\ Truthy(data.topic)
    THEN IF Truthy(data.topicBy)
         THEN Str(ToStr(data.topic) \o <<SP, "s", "e", "t", SP, "b", "y", SP>>
                  \o ToStr(data.topicBy))
         ELSE data.topic
    ELSE Undef

---------------------------------------------------------------------------
(* The callbacks and their calls *)

Callers == {"cb1", "cb2"}

ChannelNames == {<<"#", "c">>, <<"#", "d">>}

IdleFrame ==
    [pc |-> "idle", call |-> 0, op |-> "", args |-> <<>>, cmds |-> <<>>,
     exc |-> "none", next |-> 0, result |-> "none", ret |-> Undef,
     logBefore |-> <<>>, dataBefore |-> <<>>]

Init ==
    /\ sendLog = <<>>
    /\ frames = [t \in Callers |-> IdleFrame]
    /\ ncalls = 0
    /\ chanData = [c \in ChannelNames |-> NoData]

\* Mutant: the methods yield between their sends, so a call may start while
\* another is under way.
NoCallRunningAsync == TRUE

\* JavaScript runs a callback to completion: the methods are synchronous
\* functions, so a public call starts only while no other call is on the stack.
NoCallRunning == \A u \in Callers : frames[u].pc = "idle"

\* The frame when the loop has handed over its last command, or had none.
Finished(f) ==
    [f EXCEPT !.pc = "returned",
              !.result = IF f.exc = "none" THEN "ok" ELSE f.exc]

\* Entry of a public method: validation, normalisation, and the loop up to
\* its first call on this.lib.
Begin(t, op, args, plan, ret) ==
    /\ NoCallRunning
    /\ frames[t].pc = "idle"
    /\ ncalls' = ncalls + 1
    /\ LET f == [pc |-> "running", call |-> ncalls + 1, op |-> op, args |-> args,
                 cmds |-> plan.cmds, exc |-> plan.exc, next |-> 1,
                 result |-> "none", ret |-> ret,
                 logBefore |-> sendLog, dataBefore |-> chanData]
       IN frames' = [frames EXCEPT ![t] = IF Len(plan.cmds) = 0 THEN Finished(f) ELSE f]
    /\ UNCHANGED <<sendLog, chanData>>

Join(t, channels) == Begin(t, "join", <<channels>>, JoinPlan(channels), Undef)

Part(t, channels, message) ==
    Begin(t, "part", <<channels, message>>, PartPlan(channels, message), Undef)

Kick(t, channel, nicks, reason) ==
    Begin(t, "kick", <<channel, nicks, reason>>, KickPlan(channel, nicks, reason), Undef)

ChanDataOf(channel) ==
    IF IsString(channel) /\ channel.s \in DOMAIN chanData
    THEN chanData[channel.s] ELSE NoData

GetTopic(t, channel) ==
    Begin(t, "getTopic", <<channel>>, Plan(<<>>), GetTopicValue(ChanDataOf(channel)))

Tell(t, target, message, prefix) ==
    Begin(t, "tell", <<target, message, prefix>>,
          SendMessagePlan("PRIVMSG", target, message, prefix), Undef)

Notify(t, target, message, prefix) ==
    Begin(t, "notify", <<target, message, prefix>>,
          SendMessagePlan("NOTICE", target, message, prefix), Undef)

SetPrivileges(t, channel, action, privilege, nicks) ==
    Begin(t, "setPrivileges", <<channel, action, privilege, nicks>>,
          SetPrivilegesPlan(channel, action, privilege, nicks), Undef)

\* The six wrappers call setPrivileges with a fixed action and privilege.
Wrapper(t, op, action, privilege, channel, nicks) ==
    Begin(t, op, <<channel, Str(<<action>>), Str(<<privilege>>), nicks>>,
          SetPrivilegesPlan(channel, Str(<<action>>), Str(<<privilege>>), nicks), Undef)

GiveOps(t, channel, nicks) == Wrapper(t, "giveOps", "+", "o", channel, nicks)
TakeOps(t, channel, nicks) == Wrapper(t, "takeOps", "-", "o", channel, nicks)
GiveHops(t, channel, nicks) == Wrapper(t, "giveHops", "+", "h", channel, nicks)
TakeHops(t, channel, nicks) == Wrapper(t, "takeHops", "-", "h", channel, nicks)
GiveVoices(t, channel, nicks) == Wrapper(t, "giveVoices", "+", "v", channel, nicks)
TakeVoices(t, channel, nicks) == Wrapper(t, "takeVoices", "-", "v", channel, nicks)

\* What the log keeps of one call on this.lib: the callback and public call it
\* came from, its position in that call's command sequence, the command, and
\* whether the collaborator accepted it.
LogEntry(t, f, ok) ==
    [by |-> t, call |-> f.call, idx |-> f.next, cmd |-> f.cmds[f.next], ok |-> ok]

\* After a command was accepted: the loop goes on to its next command, or ends.
Advance(f) == IF f.next = Len(f.cmds) THEN Finished(f) ELSE [f EXCEPT !.next = f.next + 1]

\* Mutant: the exception is caught and the same command is sent again.
OnThrowRetry(f) == f

\* The collaborator's exception is not caught: it ends the loop and the call.
OnThrow(f) == [f EXCEPT !.pc = "returned", !.result = "TransportError"]

\* One call of this.lib.join / this.lib.part / this.lib.send that returns.
LibSend(t) ==
    /\ frames[t].pc = "running"
    /\ sendLog' = Append(sendLog, LogEntry(t, frames[t], TRUE))
    /\ frames' = [frames EXCEPT ![t] = Advance(frames[t])]
    /\ UNCHANGED <<ncalls, chanData>>

\* One call on this.lib that throws a transport error.
LibSendThrows(t) ==
    /\ frames[t].pc = "running"
    /\ sendLog' = Append(sendLog, LogEntry(t, frames[t], FALSE))
    /\ frames' = [frames EXCEPT ![t] = OnThrow(frames[t])]
    /\ UNCHANGED <<ncalls, chanData>>

\* The caller goes on after the call returned or threw; the callback ends.
Resume(t) ==
    /\ frames[t].pc = "returned"
    /\ frames' = [frames EXCEPT ![t] = IdleFrame]
    /\ UNCHANGED <<sendLog, ncalls, chanData>>

\* The collaborator updates its channel cache on an inbound protocol event
\* (its own callback, so no public call is on the stack).
Snapshots ==
    {NoData} \cup
    [present : {TRUE},
     topic : {Undef, Str(<<>>), Str(<<"h", "i">>)},
     topicBy : {Undef, Str(<<>>), Str(<<"a", "l">>)}]

TopicEvent(c, snap) ==
    /\ \A u \in Callers : frames[u].pc = "idle"
    /\ chanData[c] # snap
    /\ chanData' = [chanData EXCEPT ![c] = snap]
    /\ UNCHANGED <<sendLog, frames, ncalls>>

---------------------------------------------------------------------------
(* Inputs *)

Strings(A, n) == UNION {[1..k -> A] : k \in 0..n}

Pool == <<"a", "b", "c", "d", "e", "f", "g", "h", "i", "j", "k", "l", "m", "n",
          "o", "p", "q", "r", "s", "t">>

\* The array of the first k nicks (or channels) of the pool, all distinct.
Nicks(k) == Arr([i \in 1..k |-> <<Pool[i]>>])

NickArrays == {Nicks(k) : k \in 0..MaxNicks}

ListStrings == {Str(s) : s \in Strings({"a", "b", SP, TAB}, MaxStr)}

ListInputs == ListStrings \cup NickArrays \cup {Num, Undef}

ShortListInputs ==
    NickArrays \cup {Num, Str(<<>>), Str(<<"a", SP, "b">>), Str(<<"a", SP, SP, "b">>)}

Chan == Str(<<"#", "c">>)

ChannelInputs == {Chan, Str(<<>>), Num}

ActionInputs == {Str(<<"+">>), Str(<<"-">>), Str(<<"x">>), Str(<<"x", "+">>), Num}

PrivilegeInputs ==
    {Str(<<"v">>), Str(<<"h">>), Str(<<"o">>), Str(<<"O">>), Str(<<"x">>),
     Str(<<"o", "v">>), Num}

ReasonInputs == {Undef, Str(<<>>), Str(<<"s", "p", "a", "m">>)}

TargetInputs == {Str(<<"b", "o", "b">>), Str(<<>>), Num}

MessageInputs ==
    {Str(s) : s \in Strings({"x", LF, CR}, MaxStr)}
    \cup {Buf(b) : b \in Strings({120, 10, 13}, MaxStr)}
    \cup {Arr(<<>>), Arr(<< <<"x">> >>), Arr(<< <<"x">>, <<"y">> >>),
          Arr(<< <<"x", LF, "y">> >>), Num, Undef}

PrefixInputs == {Undef, Str(<<"!">>), Str(<<"!", LF>>)}

TopicChannelInputs == {Str(c) : c \in ChannelNames} \cup {Str(<<"#", "z">>)}

---------------------------------------------------------------------------
(* Spec: every public call, over the full input ranges, on a freshly       *)
(* constructed wrapper.                                                    *)

\* The inputs of a first call: none once a call was made.
First(S) == IF ncalls = 0 THEN S ELSE {}

Next ==
    \E t \in Callers :
        \/ \E channels \in First(ListInputs) : Join(t, channels)
        \/ \E channels \in First(ListInputs), message \in {Undef, Str(<<"b", "y", "e">>)} :
                Part(t, channels, message)
        \/ \E nicks \in First(ListInputs), reason \in ReasonInputs :
                Kick(t, Chan, nicks, reason)
        \/ \E channel \in First(TopicChannelInputs) : GetTopic(t, channel)
        \/ \E target \in First(TargetInputs), message \in MessageInputs,
              prefix \in PrefixInputs : Tell(t, target, message, prefix)
        \/ \E target \in First(TargetInputs), message \in MessageInputs,
              prefix \in PrefixInputs : Notify(t, target, message, prefix)
        \/ \E channel \in First(ChannelInputs), action \in ActionInputs,
              privilege \in PrivilegeInputs, nicks \in ListInputs :
                SetPrivileges(t, channel, action, privilege, nicks)
        \/ \E channel \in First({Chan, Num}), nicks \in ShortListInputs :
                GiveOps(t, channel, nicks)
        \/ \E channel \in First({Chan, Num}), nicks \in ShortListInputs :
                TakeOps(t, channel, nicks)
        \/ \E channel \in First({Chan, Num}), nicks \in ShortListInputs :
                GiveHops(t, channel, nicks)
        \/ \E channel \in First({Chan, Num}), nicks \in ShortListInputs :
                TakeHops(t, channel, nicks)
        \/ \E channel \in First({Chan, Num}), nicks \in ShortListInputs :
                GiveVoices(t, channel, nicks)
        \/ \E channel \in First({Chan, Num}), nicks \in ShortListInputs :
                TakeVoices(t, channel, nicks)
        \/ LibSend(t)
        \/ LibSendThrows(t)
        \/ Resume(t)

Spec == Init /\ [][Next]_vars

---------------------------------------------------------------------------
(* SpecLoop: the event loop running up to MaxCalls callbacks, each making  *)
(* one public call, valid or not, on the same wrapper.                     *)

\* The inputs of a further call: none once MaxCalls calls were made.
More(S) == IF ncalls < MaxCalls THEN S ELSE {}

LoopLists == {Nicks(0), Nicks(2), Str(<<"a", SP, "b">>), Num}

LoopMessages == {Str(<<"x", LF, "y">>), Arr(<<>>), Num}

NextLoop ==
    \E t \in Callers :
        \/ \E channels \in More(LoopLists) : Join(t, channels)
        \/ \E channels \in More(LoopLists) : Part(t, channels, Undef)
        \/ \E nicks \in More(LoopLists) : Kick(t, Chan, nicks, Str(<<"s", "p", "a", "m">>))
        \/ \E channel \in More({Chan}) : GetTopic(t, channel)
        \/ \E target \in More({Str(<<"b", "o", "b">>), Num}), message \in LoopMessages :
                Tell(t, target, message, Undef)
        \/ \E target \in More({Str(<<"b", "o", "b">>), Num}), message \in LoopMessages :
                Notify(t, target, message, Str(<<"!">>))
        \/ \E action \in More({Str(<<"+">>), Str(<<"x">>)}),
              nicks \in {Nicks(0), Nicks(MaxNicks), Num} :
                SetPrivileges(t, Chan, action, Str(<<"o">>), nicks)
        \/ \E channel \in More({Chan, Num}), nicks \in {Nicks(1), Num} :
                GiveOps(t, channel, nicks)
        \/ \E channel \in More({Chan, Num}), nicks \in {Nicks(1), Num} :
                TakeOps(t, channel, nicks)
        \/ \E channel \in More({Chan, Num}), nicks \in {Nicks(1), Num} :
                GiveHops(t, channel, nicks)
        \/ \E channel \in More({Chan, Num}), nicks \in {Nicks(1), Num} :
                TakeHops(t, channel, nicks)
        \/ \E channel \in More({Chan, Num}), nicks \in {Nicks(1), Num} :
                GiveVoices(t, channel, nicks)
        \/ \E channel \in More({Chan, Num}), nicks \in {Nicks(1), Num} :
                TakeVoices(t, channel, nicks)
        \/ LibSend(t)
        \/ LibSendThrows(t)
        \/ Resume(t)

SpecLoop == Init /\ [][NextLoop]_vars

---------------------------------------------------------------------------
(* SpecTopic: the collaborator updating its channel cache between calls of *)
(* getTopic and join.                                                      *)

NextTopic ==
    \/ \E c \in ChannelNames, snap \in Snapshots : TopicEvent(c, snap)
    \/ \E t \in Callers :
        \/ \E channel \in More(TopicChannelInputs) : GetTopic(t, channel)
        \/ \E channels \in More({Nicks(1), Num}) : Join(t, channels)
        \/ LibSend(t)
        \/ LibSendThrows(t)
        \/ Resume(t)

SpecTopic == Init /\ [][NextTopic]_vars

---------------------------------------------------------------------------
(* Vocabulary of the properties *)

PrivilegeOps ==
    {"setPrivileges", "giveOps", "takeOps", "giveHops", "takeHops", "giveVoices",
     "takeVoices"}

\* The log entries of the call in frame f, in log order, and their commands.
Mine(f) == SelectSeq(sendLog, LAMBDA e : e.call = f.call)

SentCmds(f) == [i \in 1..Len(Mine(f)) |-> Mine(f)[i].cmd]

ReturnedOk(f) == f.pc = "returned" /\ f.result = "ok"

NonEmptyString(v) == IsString(v) /\ Len(v.s) > 0

ExactAction(v) == v \in {Str(<<"+">>), Str(<<"-">>)}

ExactPrivilege(v) ==
    v \in {Str(<<c>>) : c \in {"v", "h", "o", "V", "H", "O"}}

\* The list an operation works on, for an array or a string argument.
ListOf(v) == SplitList(v).a

\* ceil(n / 6), stated without division.
CeilSixth(n) == CHOOSE m \in 0..n : 6 * m >= n /\ (m = 0 \/ 6 * (m - 1) < n)

\* The nick tokens of a sequence of MODE commands, concatenated in order.
RECURSIVE NickTokens(_)
NickTokens(cmds) ==
    IF Len(cmds) = 0 THEN <<>>
    ELSE SubSeq(cmds[1].args, 3, Len(cmds[1].args)) \o NickTokens(Tail(cmds))

---------------------------------------------------------------------------
\* C1: a setPrivileges call (or wrapper) with a non-empty channel, an action
\* that is exactly '+' or '-', a privilege that is exactly one of v, h, o and a
\* nick list of length N, once it has returned, has sent exactly ceil(N/6) MODE
\* commands, each with at most 6 nick tokens and the mode string action +
\* privilege repeated once per nick token, and the nick tokens of all commands
\* in send order are the nick list in its order.
C1_BatchesCoverNickList ==
    \A t \in Callers :
        LET f == frames[t] IN
        (/\ ReturnedOk(f) /\ f.op \in PrivilegeOps
         /\ NonEmptyString(f.args[1]) /\ ExactAction(f.args[2])
         /\ ExactPrivilege(f.args[3]))
        => LET nicks == ListOf(f.args[4])
               sent == SentCmds(f)
           IN /\ Len(sent) = CeilSixth(Len(nicks))
              /\ \A i \in 1..Len(sent) :
                    LET k == Len(sent[i].args) - 2 IN
                    /\ sent[i].verb = "MODE"
                    /\ Len(sent[i].args) >= 3
                    /\ k <= 6
                    /\ sent[i].args[1] = f.args[1]
                    /\ sent[i].args[2] =
                         Str(f.args[2].s \o [j \in 1..k |-> f.args[3].s[1]])
              /\ NickTokens(sent) = [i \in 1..Len(nicks) |-> Str(nicks[i])]

C1_Witness ==
    \E t \in Callers :
        /\ ReturnedOk(frames[t]) /\ frames[t].op = "setPrivileges"
        /\ ExactAction(frames[t].args[2]) /\ ExactPrivilege(frames[t].args[3])
        /\ frames[t].args[4] = Nicks(13)
        /\ Len(Mine(frames[t])) = 3

\* C2: a public call that failed with InvalidArgument handed nothing to the
\* collaborator: the log is what it was when the call started.
C2_InvalidSendsNothing ==
    \A t \in Callers :
        (frames[t].pc = "returned" /\ frames[t].result = "InvalidArgument")
        => sendLog = frames[t].logBefore

C2_Witness ==
    \E t \in Callers :
        /\ frames[t].pc = "returned" /\ frames[t].result = "InvalidArgument"
        /\ frames[t].op \in PrivilegeOps
        /\ Len(sendLog) > 0

\* The mode strings the validation is meant to let through.
WellFormedMode(v) ==
    /\ IsString(v) /\ Len(v.s) >= 1
    /\ v.s[1] \in {"+", "-"}
    /\ \A i \in 2..Len(v.s) : v.s[i] \in {"v", "h", "o", "V", "H", "O"}

\* C3: setPrivileges fails with InvalidArgument whenever the channel is empty,
\* the action is not exactly '+' or '-', or the privilege is not exactly one of
\* v, h, o; tell and notify fail whenever the target is not a non-empty string;
\* and no MODE command is handed over whose mode string is not one '+' or '-'
\* followed by copies of v, h or o.
C3_ValidationRejects ==
    /\ \A t \in Callers :
          LET f == frames[t] IN
          /\ (/\ f.op \in PrivilegeOps
              /\ \/ ~NonEmptyString(f.args[1])
                 \/ ~ExactAction(f.args[2])
                 \/ ~ExactPrivilege(f.args[3]))
             => (f.pc = "returned" /\ f.result = "InvalidArgument")
          /\ (f.op \in {"tell", "notify"} /\ ~NonEmptyString(f.args[1]))
             => (f.pc = "returned" /\ f.result = "InvalidArgument")
    /\ \A i \in 1..Len(sendLog) :
          sendLog[i].cmd.verb = "MODE" => WellFormedMode(sendLog[i].cmd.args[2])

\* C4: the commands of one public call are handed to the collaborator as one
\* contiguous block, in construction order: no entry of another call lies
\* between two entries of the same call, and the entries of a call carry the
\* positions 1, 2, ... of its command sequence in that order.
C4_CallsNotInterleaved ==
    /\ \A i, j, k \in 1..Len(sendLog) :
          (i < j /\ j < k /\ sendLog[i].call = sendLog[k].call)
          => sendLog[j].call = sendLog[i].call
    /\ \A i \in 1..Len(sendLog) :
          sendLog[i].idx =
              1 + Cardinality({j \in 1..(i - 1) : sendLog[j].call = sendLog[i].call})
    /\ \A t \in Callers :
          frames[t].pc # "idle" =>
              \A i \in 1..Len(Mine(frames[t])) :
                  Mine(frames[t])[i].cmd = frames[t].cmds[i]

C4_Witness ==
    \E i, j, k \in 1..Len(sendLog) :
        /\ i < j /\ j < k
        /\ sendLog[i].call # sendLog[j].call
        /\ sendLog[i].by # sendLog[j].by
        /\ sendLog[j].call = sendLog[k].call
        /\ frames[sendLog[k].by].call = sendLog[k].call
        /\ frames[sendLog[k].by].pc = "returned"

\* C5: when the collaborator throws on the k-th command of a call, the call
\* ends with that error, the k-th command was handed over exactly once, nothing
\* after it is handed over, and what was handed over is the first k commands of
\* the call's command sequence, in order.
C5_TransportErrorPropagates ==
    \A t \in Callers :
        LET f == frames[t]
            mine == Mine(f)
        IN f.pc # "idle" =>
            /\ \A i \in 1..Len(mine) :
                  /\ mine[i].idx = i
                  /\ i <= Len(f.cmds) /\ mine[i].cmd = f.cmds[i]
                  /\ ~mine[i].ok =>
                        /\ i = Len(mine)
                        /\ f.pc = "returned" /\ f.result = "TransportError"
            /\ f.result = "TransportError" =>
                  Len(mine) >= 1 /\ ~mine[Len(mine)].ok

C5_Witness ==
    \E t \in Callers :
        /\ frames[t].pc = "returned" /\ frames[t].result = "TransportError"
        /\ frames[t].op = "kick"
        /\ Len(Mine(frames[t])) = 2
        /\ Len(frames[t].cmds) > 2

---------------------------------------------------------------------------
\* The list the specification's normalisation gives for a string: its maximal
\* runs of non-whitespace characters, left to right.
WsTokens(s) ==
    LET W == {SP, TAB, LF, CR}
        H[i \in 0..Len(s)] ==
            IF i = 0 THEN <<>>
            ELSE IF s[i] \in W THEN H[i - 1]
            ELSE IF i > 1 /\ s[i - 1] \notin W
                 THEN [H[i - 1] EXCEPT ![Len(H[i - 1])] = Append(@, s[i])]
                 ELSE Append(H[i - 1], <<s[i]>>)
    IN H[Len(s)]

\* The argument of a list operation that holds its channel or nick list.
ListArg(f) == IF f.op \in PrivilegeOps THEN f.args[4]
              ELSE IF f.op = "kick" THEN f.args[2] ELSE f.args[1]

\* The channel or nick tokens of the commands a list operation sent.
ListTokens(f) ==
    IF f.op \in PrivilegeOps THEN NickTokens(SentCmds(f))
    ELSE IF f.op = "kick" THEN [i \in 1..Len(SentCmds(f)) |-> SentCmds(f)[i].args[2]]
    ELSE [i \in 1..Len(SentCmds(f)) |-> SentCmds(f)[i].args[1]]

ListOps == {"join", "part", "kick"} \cup PrivilegeOps

\* C6: for a string given as channel or nick list, the channel or nick tokens
\* of the commands sent are the non-empty tokens between runs of whitespace,
\* one per token in left-to-right order, and never an empty string.
C6_WhitespaceTokens ==
    \A t \in Callers :
        LET f == frames[t] IN
        (ReturnedOk(f) /\ f.op \in ListOps /\ IsString(ListArg(f)))
        => /\ ListTokens(f) =
                [i \in 1..Len(WsTokens(ListArg(f).s)) |-> Str(WsTokens(ListArg(f).s)[i])]
           /\ \A i \in 1..Len(ListTokens(f)) : ListTokens(f)[i] # Str(<<>>)

\* The lines the specification's formatter gives for a message.
FormatLines(message, prefix) ==
    LET ls == CASE IsString(message) -> SplitLines(message.s)
                [] IsBuffer(message) ->
                       SelectSeq(SplitLines(Decode(message.b)), LAMBDA l : l # <<>>)
                [] OTHER -> message.a
    IN [i \in 1..Len(ls) |-> IF prefix = Undef THEN ls[i] ELSE prefix.s \o <<SP>> \o ls[i]]

HasLineBreak(v) == \E i \in 1..Len(v.s) : v.s[i] \in {CR, LF}

\* C7: a tell/notify to a non-empty target that returned has sent exactly one PRIVMSG/NOTICE per line
\* of the formatted message, in order (string: split on CR/LF runs, empty
\* segments kept; buffer: decoded, split, empty segments dropped; sequence: as
\* is; with a prefix, prefix + space + line), and no line sent for a string or
\* buffer message contains a CR or LF.
C7_OneSendPerLine ==
    \A t \in Callers :
        LET f == frames[t]
            sent == SentCmds(f)
        IN (ReturnedOk(f) /\ f.op \in {"tell", "notify"} /\ NonEmptyString(f.args[1]))
           => /\ sent = [i \in 1..Len(FormatLines(f.args[2], f.args[3])) |->
                            Cmd(IF f.op = "tell" THEN "PRIVMSG" ELSE "NOTICE",
                                <<f.args[1], Str(FormatLines(f.args[2], f.args[3])[i])>>)]
              /\ (IsString(f.args[2]) \/ IsBuffer(f.args[2]))
                 => \A i \in 1..Len(sent) : ~HasLineBreak(sent[i].args[2])

\* The part of C7 that does not depend on the prefix: one send per formatted
\* line, in order.
C7_SendsFormattedLines ==
    \A t \in Callers :
        LET f == frames[t] IN
        (ReturnedOk(f) /\ f.op \in {"tell", "notify"})
        => SentCmds(f) = [i \in 1..Len(FormatLines(f.args[2], f.args[3])) |->
                            Cmd(IF f.op = "tell" THEN "PRIVMSG" ELSE "NOTICE",
                                <<f.args[1], Str(FormatLines(f.args[2], f.args[3])[i])>>)]

\* C8 (as amended): a kick that returned has sent exactly one KICK command per
\* nick of the list it iterated (the array given, or the string split at each
\* space), in list order: [KICK, channel, nick, reason] when the reason is
\* provided and not the empty string, [KICK, channel, nick] when no reason or
\* an empty reason is provided.
C8_KickPerNick ==
    \A t \in Callers :
        LET f == frames[t]
            sent == SentCmds(f)
            nicks == ListOf(f.args[2])
        IN (ReturnedOk(f) /\ f.op = "kick")
           => /\ Len(sent) = Len(nicks)
              /\ \A i \in 1..Len(sent) :
                    /\ sent[i].verb = "KICK"
                    /\ sent[i].args =
                         IF f.args[3] \in {Undef, Str(<<>>)}
                         THEN <<f.args[1], Str(nicks[i])>>
                         ELSE <<f.args[1], Str(nicks[i]), f.args[3]>>

C8_Witness ==
    \E t \in Callers :
        /\ ReturnedOk(frames[t]) /\ frames[t].op = "kick"
        /\ frames[t].args[3] = Str(<<>>)
        /\ Len(SentCmds(frames[t])) >= 2

\* C8 (as stated): every provided reason, the empty string included, is the
\* fourth token of each KICK command; without a reason there is no fourth token.
C8_ReasonAlwaysAppended ==
    \A t \in Callers :
        LET f == frames[t]
            sent == SentCmds(f)
            nicks == ListOf(f.args[2])
        IN (ReturnedOk(f) /\ f.op = "kick")
           => /\ Len(sent) = Len(nicks)
              /\ \A i \in 1..Len(sent) :
                    /\ sent[i].verb = "KICK"
                    /\ sent[i].args =
                         IF f.args[3] = Undef
                         THEN <<f.args[1], Str(nicks[i])>>
                         ELSE <<f.args[1], Str(nicks[i]), f.args[3]>>

\* C9: join, part, kick and setPrivileges (and its wrappers) called with an
\* empty array send nothing, and raise nothing unless one of setPrivileges'
\* other arguments is not valid.
C9_EmptyListNoOp ==
    \A t \in Callers :
        LET f == frames[t] IN
        (f.op \in ListOps /\ ListArg(f) = Arr(<<>>))
        => /\ f.pc = "returned"
           /\ Mine(f) = <<>>
           /\ sendLog = f.logBefore
           /\ f.result \in {"ok", "InvalidArgument"}
           /\ f.result = "InvalidArgument"
              => /\ f.op \in PrivilegeOps
                 /\ \/ ~NonEmptyString(f.args[1])
                    \/ ~ExactAction(f.args[2])
                    \/ ~ExactPrivilege(f.args[3])

C9_Witness ==
    /\ \E t \in Callers :
          /\ ReturnedOk(frames[t]) /\ frames[t].op = "setPrivileges"
          /\ ListArg(frames[t]) = Arr(<<>>)

SetBy == <<SP, "s", "e", "t", SP, "b", "y", SP>>

\* The snapshot a getTopic call read.
DataRead(f) ==
    IF IsString(f.args[1]) /\ f.args[1].s \in DOMAIN f.dataBefore
    THEN f.dataBefore[f.args[1].s] ELSE NoData

\* C10 (as amended): getTopic returns absent exactly when the snapshot is
\* absent or its topic is absent or the empty string; otherwise the topic
\* followed by " set by " and the setter when the setter is present and not
\* the empty string, and the topic alone otherwise.  The call sends no command
\* and leaves the snapshot unchanged.
C10_TopicComposed ==
    \A t \in Callers :
        LET f == frames[t]
            data == DataRead(f)
        IN (f.pc = "returned" /\ f.op = "getTopic")
           => /\ f.result = "ok"
              /\ f.ret = Undef <=> (~data.present \/ data.topic \in {Undef, Str(<<>>)})
              /\ f.ret # Undef =>
                    f.ret = IF data.topicBy \in {Undef, Str(<<>>)}
                            THEN data.topic
                            ELSE Str(data.topic.s \o SetBy \o data.topicBy.s)
              /\ sendLog = f.logBefore
              /\ chanData = f.dataBefore

C10_Witness ==
    \E t \in Callers :
        /\ frames[t].pc = "returned" /\ frames[t].op = "getTopic"
        /\ DataRead(frames[t]).present
        /\ DataRead(frames[t]).topic = Str(<<>>)
        /\ DataRead(frames[t]).topicBy # Undef
        /\ Len(sendLog) > 0

\* C10 (as stated): absent exactly when the snapshot or its topic field is
\* absent; the setter is appended whenever it is present.
C10_AbsentOnlyWhenFieldAbsent ==
    \A t \in Callers :
        LET f == frames[t]
            data == DataRead(f)
        IN (f.pc = "returned" /\ f.op = "getTopic")
           => /\ f.ret = Undef <=> (~data.present \/ data.topic = Undef)
              /\ f.ret # Undef =>
                    f.ret = IF data.topicBy = Undef
                            THEN data.topic
                            ELSE Str(data.topic.s \o SetBy \o data.topicBy.s)
              /\ sendLog = f.logBefore
              /\ chanData = f.dataBefore

===========================================================================
